---- MODULE Spec2Model ----
(***************************************************************************)
(* A model of the Gaussian distribution of the probability crate           *)
(* (src/src/distribution/gaussian.rs): construction, the moment            *)
(* operations, the AS241 inverse CDF and the ziggurat sampler.             *)
(*                                                                         *)
(* Numbers.  An f64 is modelled as an extended fixed-point value: a record *)
(* [k, v] that is finite (v counts units of 1/Unit), an infinity (v is its *)
(* sign) or NaN.  Products and quotients truncate toward zero.  A          *)
(* probability (the argument p of inv_cdf, q = p - 0.5 and the tail        *)
(* probability r) is kept at a resolution of 1e-12 as a signed pair of     *)
(* limbs, because the far tail of inv_cdf begins at r < exp(-25), about    *)
(* 1.4e-11, far below 1/Unit.  A u64 word is four 16-bit limbs, least      *)
(* significant first.                                                      *)
(***************************************************************************)
EXTENDS Integers, Sequences, FiniteSets, TLC

VARIABLES
    d,      \* the caller's Gaussian: [some, mu, sigma]
    pc,     \* the caller's position: "idle" or a place inside inv_cdf / sample
    ret,    \* what the most recent call gave back: [op, status, value]
    inv,    \* the frame of inv_cdf: [via, p, q, x]
    smp,    \* the frame of sample: [via, u, i, j, s, x, y]
    src,    \* the random source as the call sees it: reads served, per kind
    hist    \* history of the current (or most recent) call

vars == <<d, pc, ret, inv, smp, src, hist>>

(***************************************************************************)
(* f64 as extended fixed point                                             *)
(***************************************************************************)
Unit == 10000

Fin(n) == [k |-> "fin", v |-> n]
PosInf == [k |-> "inf", v |-> 1]
NegInf == [k |-> "inf", v |-> -1]
NaN == [k |-> "nan", v |-> 0]

IsFin(a) == a.k = "fin"
IsNaN(a) == a.k = "nan"

Abs(n) == IF n < 0 THEN -n ELSE n
Sgn(n) == IF n > 0 THEN 1 ELSE IF n < 0 THEN -1 ELSE 0
Min(a, b) == IF a < b THEN a ELSE b
Max(a, b) == IF a < b THEN b ELSE a

\* floor(a * b / m) for naturals, without forming a * b
MulDiv(a, b, m) == (a \div m) * b + ((a % m) * b) \div m

\* the product of two fixed-point numbers, truncated toward zero
MulFix(a, b) ==
    Sgn(a) * Sgn(b) * MulDiv(Max(Abs(a), Abs(b)), Min(Abs(a), Abs(b)), Unit)

RECURSIVE Pow10(_)
Pow10(e) == IF e = 0 THEN 1 ELSE 10 * Pow10(e - 1)

RECURSIVE FracDigits(_, _, _)
\* the first n decimal digits of r / b, for 0 <= r < b
FracDigits(r, b, n) ==
    IF n = 0 THEN 0
    ELSE LET t == r * 10
         IN  (t \div b) * Pow10(n - 1) + FracDigits(t % b, b, n - 1)

\* the quotient of two fixed-point numbers (b # 0), truncated toward zero
DivFix(a, b) ==
    LET n == Abs(a)
        m == Abs(b)
    IN  Sgn(a) * Sgn(b) * ((n \div m) * Unit + FracDigits(n % m, m, 4))

\* ordering key of a non-NaN value
Ord(a) == IF a.k = "inf" THEN a.v * 2000000000 ELSE a.v
ELt(a, b) == ~IsNaN(a) /\ ~IsNaN(b) /\ Ord(a) < Ord(b)
ELe(a, b) == ~IsNaN(a) /\ ~IsNaN(b) /\ Ord(a) <= Ord(b)

ENeg(a) ==
    IF IsNaN(a) THEN NaN
    ELSE IF IsFin(a) THEN Fin(-a.v)
    ELSE [k |-> "inf", v |-> -a.v]

EAdd(a, b) ==
    IF IsNaN(a) \/ IsNaN(b) THEN NaN
    ELSE IF IsFin(a) /\ IsFin(b) THEN Fin(a.v + b.v)
    ELSE IF IsFin(a) THEN b
    ELSE IF IsFin(b) THEN a
    ELSE IF a.v = b.v THEN a
    ELSE NaN

ESub(a, b) == EAdd(a, ENeg(b))

EMul(a, b) ==
    IF IsNaN(a) \/ IsNaN(b) THEN NaN
    ELSE IF IsFin(a) /\ IsFin(b) THEN Fin(MulFix(a.v, b.v))
    ELSE IF Sgn(a.v) * Sgn(b.v) = 0 THEN NaN
    ELSE [k |-> "inf", v |-> Sgn(a.v) * Sgn(b.v)]

EDiv(a, b) ==
    IF IsNaN(a) \/ IsNaN(b) THEN NaN
    ELSE IF IsFin(a) /\ IsFin(b)
         THEN IF b.v # 0 THEN Fin(DivFix(a.v, b.v))
              ELSE IF a.v = 0 THEN NaN
              ELSE [k |-> "inf", v |-> Sgn(a.v)]
    ELSE IF IsFin(a) THEN Fin(0)
    ELSE IF IsFin(b) THEN [k |-> "inf", v |-> a.v * (IF b.v < 0 THEN -1 ELSE 1)]
    ELSE NaN

\* whether t * t <= n * Unit, without forming t * t
SquareLe(t, n) ==
    LET a == t \div 100
        b == t % 100
        low == 200 * a * b + b * b
        top == a * a + low \div Unit
    IN  top < n \/ (top = n /\ low % Unit = 0)

RECURSIVE SqrtSearch(_, _, _)
\* the largest t in lo .. hi - 1 with t * t <= n * Unit
SqrtSearch(lo, hi, n) ==
    IF hi - lo <= 1 THEN lo
    ELSE LET mid == (lo + hi) \div 2
         IN  IF SquareLe(mid, n) THEN SqrtSearch(mid, hi, n)
             ELSE SqrtSearch(lo, mid, n)

\* f64::sqrt
ESqrt(a) ==
    IF IsNaN(a) THEN NaN
    ELSE IF IsFin(a)
         THEN IF a.v < 0 THEN NaN ELSE Fin(SqrtSearch(0, 262144, a.v))
    ELSE IF a.v > 0 THEN PosInf
    ELSE NaN

\* ln 2 and ln 10 in units of 1e-5
Ln2e5 == 69315
Ln10e5 == 230259

RECURSIVE Log2Floor(_)
Log2Floor(m) == IF m < 2 THEN 0 ELSE 1 + Log2Floor(m \div 2)

RECURSIVE Pow2(_)
Pow2(e) == IF e = 0 THEN 1 ELSE 2 * Pow2(e - 1)

\* ln m in units of 1e-5, for 1 <= m <= 9999: m = 2^e * f with 1 <= f < 2,
\* ln f = 2 atanh z with z = (f - 1) / (f + 1)
LnSmall(m) ==
    LET e == Log2Floor(m)
        w == Pow2(e)
        z == ((m - w) * 100000) \div (m + w)
        z2 == (z * z) \div 100000
        z3 == (z2 * z) \div 100000
        z5 == (z3 * z2) \div 100000
        z7 == (z5 * z2) \div 100000
    IN  e * Ln2e5 + 2 * (z + z3 \div 3 + z5 \div 5 + z7 \div 7)

RECURSIVE LnInt(_)
\* ln n in units of 1e-5, for an integer n >= 1 (four significant digits)
LnInt(n) == IF n >= 10000 THEN LnInt(n \div 10) + Ln10e5 ELSE LnSmall(n)

\* ln (n / Unit) in fixed point, n >= 1
LnFix(n) == (LnInt(n) - 4 * Ln10e5) \div 10

\* f64::ln
ELn(a) ==
    IF IsNaN(a) THEN NaN
    ELSE IF IsFin(a)
         THEN IF a.v < 0 THEN NaN
              ELSE IF a.v = 0 THEN NegInf
              ELSE Fin(LnFix(a.v))
    ELSE IF a.v > 0 THEN PosInf
    ELSE NaN

\* 1 / e in fixed point
InvE == 3679

RECURSIVE ExpNeg(_)
\* exp(-z) in fixed point for z >= 0: a Taylor sum on the fraction, one factor
\* 1 / e for every whole unit
ExpNeg(z) ==
    IF z >= Unit THEN MulFix(InvE, ExpNeg(z - Unit))
    ELSE LET f2 == MulFix(z, z)
             f3 == MulFix(f2, z)
             f4 == MulFix(f3, z)
             f5 == MulFix(f4, z)
             f6 == MulFix(f5, z)
         IN  Unit - z + f2 \div 2 - f3 \div 6 + f4 \div 24 - f5 \div 120 + f6 \div 720

\* f64::exp
EExp(a) ==
    IF IsNaN(a) THEN NaN
    ELSE IF IsFin(a)
         THEN IF a.v <= 0 THEN Fin(ExpNeg(-a.v))
              ELSE IF ExpNeg(a.v) = 0 THEN PosInf
              ELSE Fin(DivFix(Unit, ExpNeg(a.v)))
    ELSE IF a.v > 0 THEN PosInf
    ELSE Fin(0)


(***************************************************************************)
(* Probabilities at a resolution of 1e-12: s * (hi * 1e-6 + lo * 1e-12)    *)
(***************************************************************************)
Limb == 1000000

Prob(s, hi, lo) == [s |-> s, hi |-> hi, lo |-> lo]
PZero == Prob(1, 0, 0)
PHalf == Prob(1, 500000, 0)
POne == Prob(1, Limb, 0)

PIsZero(a) == a.hi = 0 /\ a.lo = 0
PMagLt(a, b) == a.hi < b.hi \/ (a.hi = b.hi /\ a.lo < b.lo)
PLt(a, b) ==
    IF a.s # b.s THEN a.s < b.s
    ELSE IF a.s = 1 THEN PMagLt(a, b)
    ELSE PMagLt(b, a)
PLe(a, b) == ~PLt(b, a)

PNeg(a) == IF PIsZero(a) THEN a ELSE Prob(-a.s, a.hi, a.lo)

PMagAdd(a, b) ==
    LET lo == a.lo + b.lo
    IN  Prob(1, a.hi + b.hi + lo \div Limb, lo % Limb)

\* |a| - |b| for |a| >= |b|
PMagSub(a, b) ==
    LET lo == a.lo - b.lo
    IN  IF lo < 0 THEN Prob(1, a.hi - b.hi - 1, lo + Limb)
        ELSE Prob(1, a.hi - b.hi, lo)

PWithSign(s, m) == IF PIsZero(m) THEN m ELSE Prob(s, m.hi, m.lo)

PAdd(a, b) ==
    IF a.s = b.s THEN PWithSign(a.s, PMagAdd(a, b))
    ELSE IF PMagLt(a, b) THEN PWithSign(b.s, PMagSub(b, a))
    ELSE PWithSign(a.s, PMagSub(a, b))

PSub(a, b) == PAdd(a, PNeg(b))

\* the same number at the resolution of the other f64 values
PToF(a) == Fin(a.s * (a.hi \div (Limb \div Unit)))

\* ln |a| in units of 1e-5, for a # 0
PLnMag(a) ==
    IF a.hi = 0 THEN LnInt(a.lo) - 12 * Ln10e5
    ELSE IF a.hi < 1000 THEN LnInt(a.hi * 1000 + a.lo \div 1000) - 9 * Ln10e5
    ELSE LnInt(a.hi) - 6 * Ln10e5

\* f64::ln of a probability
PLn(a) ==
    IF a.s < 0 THEN NaN
    ELSE IF PIsZero(a) THEN NegInf
    ELSE Fin(PLnMag(a) \div 10)

(***************************************************************************)
(* The constants of gaussian.rs.  The real-valued ones are in fixed point: *)
(* Y and the polynomial coefficients in units of 1/Unit, W in units of     *)
(* 1e-11.  Tables are indexed from 1 here: entry i of the source is [i+1]. *)
(***************************************************************************)
CONST1 == 1806
CONST2 == 16000
SPLIT1 == Prob(1, 425000, 0)
SPLIT2 == 50000
R == 34443

K ==
  <<
    0, 12590644, 14272653, 14988939, 15384584, 15635009, 15807561, 15933577,
    16029594, 16105155, 16166147, 16216399, 16258508, 16294295, 16325078, 16351831,
    16375291, 16396026, 16414479, 16431002, 16445880, 16459343, 16471578, 16482744,
    16492970, 16502368, 16511031, 16519039, 16526459, 16533352, 16539769, 16545755,
    16551348, 16556584, 16561493, 16566101, 16570433, 16574511, 16578353, 16581977,
    16585398, 16588629, 16591685, 16594575, 16597311, 16599901, 16602354, 16604679,
    16606881, 16608968, 16610945, 16612818, 16614592, 16616272, 16617861, 16619363,
    16620782, 16622121, 16623383, 16624570, 16625685, 16626730, 16627708, 16628619,
    16629465, 16630248, 16630969, 16631628, 16632228, 16632768, 16633248, 16633671,
    16634034, 16634340, 16634586, 16634774, 16634903, 16634972, 16634980, 16634926,
    16634810, 16634628, 16634381, 16634066, 16633680, 16633222, 16632688, 16632075,
    16631380, 16630598, 16629726, 16628757, 16627686, 16626507, 16625212, 16623794,
    16622243, 16620548, 16618698, 16616679, 16614476, 16612071, 16609444, 16606571,
    16603425, 16599973, 16596178, 16591995, 16587369, 16582237, 16576520, 16570120,
    16562917, 16554758, 16545450, 16534739, 16522287, 16507638, 16490152, 16468907,
    16442518, 16408804, 16364095, 16301683, 16207738, 16047994, 15704248, 15472926
  >>

Y ==
  <<
    10000, 9636, 9363, 9130, 8923, 8732, 8555, 8388,
    8229, 8077, 7932, 7791, 7656, 7524, 7397, 7272,
    7151, 7033, 6918, 6805, 6694, 6586, 6479, 6375,
    6272, 6171, 6072, 5974, 5878, 5784, 5690, 5598,
    5507, 5418, 5329, 5242, 5156, 5071, 4987, 4904,
    4822, 4741, 4661, 4581, 4503, 4425, 4348, 4272,
    4197, 4123, 4049, 3976, 3904, 3832, 3761, 3691,
    3621, 3553, 3484, 3417, 3350, 3283, 3217, 3152,
    3087, 3023, 2960, 2897, 2834, 2773, 2711, 2650,
    2590, 2530, 2471, 2412, 2354, 2296, 2239, 2182,
    2126, 2070, 2014, 1960, 1905, 1851, 1798, 1745,
    1692, 1640, 1588, 1537, 1486, 1436, 1386, 1337,
    1288, 1239, 1191, 1143, 1096, 1050, 1003, 958,
    912, 868, 823, 779, 736, 693, 651, 609,
    567, 526, 486, 446, 407, 369, 331, 293,
    257, 221, 186, 151, 118, 86, 55, 27
  >>

W ==
  <<
    1623, 2163, 2542, 2846, 3103, 3330, 3534, 3722,
    3895, 4058, 4211, 4357, 4496, 4629, 4757, 4881,
    5001, 5117, 5230, 5340, 5448, 5553, 5656, 5757,
    5856, 5954, 6050, 6144, 6238, 6330, 6420, 6510,
    6599, 6687, 6774, 6860, 6946, 7031, 7115, 7199,
    7282, 7365, 7448, 7530, 7611, 7692, 7773, 7854,
    7935, 8015, 8095, 8176, 8256, 8335, 8415, 8495,
    8575, 8655, 8735, 8816, 8896, 8976, 9057, 9138,
    9219, 9301, 9383, 9465, 9547, 9630, 9714, 9797,
    9882, 9967, 10052, 10138, 10225, 10312, 10400, 10489,
    10579, 10670, 10761, 10854, 10948, 11043, 11138, 11236,
    11334, 11434, 11536, 11638, 11743, 11850, 11958, 12068,
    12181, 12296, 12413, 12533, 12656, 12781, 12911, 13043,
    13180, 13320, 13466, 13616, 13772, 13934, 14103, 14279,
    14464, 14658, 14863, 15081, 15314, 15564, 15835, 16131,
    16460, 16829, 17254, 17757, 18381, 19217, 20530, 22260
  >>

A ==
  <<
    33871, 1331417, 19715910, 137316938,
    459219539, 672657709, 334305756, 25090809
  >>

B ==
  <<
    10000, 423133, 6871870, 53941960,
    212137943, 393078958, 287290857, 52264953
  >>

C ==
  <<
    14234, 46303, 57695, 36478,
    12705, 2418, 227, 8
  >>

D ==
  <<
    10000, 20532, 16764, 6898,
    1481, 152, 5, 0
  >>

E ==
  <<
    66579, 54638, 17848, 2966,
    265, 12, 0, 0
  >>

F ==
  <<
    10000, 5998, 1369, 149,
    8, 0, 0, 0
  >>

KAt(i) == K[i + 1]
YAt(i) == Fin(Y[i + 1])
WAt(i) == W[i + 1]

RECURSIVE Horner(_, _, _)
\* c[n] + x * (c[n+1] + x * ( ... + x * c[8]))
Horner(c, x, n) ==
    IF n = 8 THEN Fin(c[8])
    ELSE EAdd(Fin(c[n]), EMul(x, Horner(c, x, n + 1)))

poly(c, x) == Horner(c, x, 1)

(***************************************************************************)
(* Inputs the caller and the source may supply                             *)
(***************************************************************************)
MaxAttempts == 2

Mus == {Fin(-Unit), Fin(2 * Unit)}
Sigmas == {Fin(-Unit), Fin(0), Fin(Unit \div 4), Fin(2 * Unit)}

\* probabilities handed to inv_cdf: outside [0, 1], the two ends, both tails
\* on either side of t = 5.0, and the central region with its two edges
Probs ==
    { Prob(-1, 500000, 0), Prob(-1, 0, 1), PZero, Prob(1, 0, 1), Prob(1, 0, 10),
      Prob(1, 0, 20), Prob(1, 50000, 0), Prob(1, 74999, 999999),
      Prob(1, 75000, 0), Prob(1, 250000, 0), PHalf, Prob(1, 750000, 0),
      Prob(1, 925000, 0), Prob(1, 925000, 1), Prob(1, 950000, 0),
      Prob(1, 999999, 999980), Prob(1, 999999, 999999), POne,
      Prob(1, Limb, 1), Prob(1, 1500000, 0) }

\* the u64 word whose low seven bits are i, whose bit 7 is b, whose bits 8..31
\* are j and whose upper 32 bits are two copies of hi
MkWord(hi, j, b, i) == <<i + 128 * b + 256 * (j % 256), j \div 256, hi, hi>>

\* words of the bottom layer, of the last layer below the tail and of the tail
\* layer, with candidates at 0, on either side of K[i] and at the largest
\* 24-bit value, of either sign, some with the unused upper bits set
Words ==
    { MkWord(0, 0, 0, 0), MkWord(65535, 16777215, 1, 0),
      MkWord(0, 0, 1, 126), MkWord(65535, KAt(126) - 1, 0, 126),
      MkWord(0, KAt(126), 1, 126), MkWord(0, 16777215, 0, 126),
      MkWord(0, 0, 0, 127), MkWord(0, KAt(127) - 1, 1, 127),
      MkWord(65535, KAt(127), 0, 127), MkWord(0, 16777215, 1, 127) }

\* the uniform reals in [0, 1) the source may deliver
Reals == {Fin(0), Fin(Unit \div 2), Fin(Unit - 1)}

(***************************************************************************)
(* Gaussian::new and the accessors                                         *)
(***************************************************************************)
\* should!(requirement): a requirement that does not hold fails the call
ShouldFails(requirement) == ~requirement

\* sigma >= 0 in place of sigma > 0
NewRequirementNonStrict(sigma) == ELe(Fin(0), sigma)

NewRequirement(sigma) == ELt(Fin(0), sigma)

Gaussian(mu, sigma) == [some |-> TRUE, mu |-> mu, sigma |-> sigma]
NoGaussian == [some |-> FALSE, mu |-> Fin(0), sigma |-> Fin(0)]

mu(g) == g.mu
sigma(g) == g.sigma

(***************************************************************************)
(* The moment operations                                                   *)
(***************************************************************************)
mean(g) == g.mu
\* the standard deviation in place of the variance
VarAsSd(g) == g.sigma

var(g) == EMul(g.sigma, g.sigma)
sd(g) == g.sigma
kurtosis(g) == Fin(0)
median(g) == g.mu
modes(g) == <<g.mu>>
skewness(g) == Fin(0)

(***************************************************************************)
(* inv_cdf, the standard inverse CDF                                       *)
(***************************************************************************)
\* the upper half of the requirement left out
InvCdfRequirementLower(p) == PLe(PZero, p)

InvCdfRequirement(p) == PLe(PZero, p) /\ PLe(p, POne)

\* p < 0 in place of p <= 0
AtLowerBoundStrict(p) == PLt(p, PZero)

AtLowerBound(p) == PLe(p, PZero)
AtUpperBound(p) == PLe(POne, p)

PAbs(q) == IF PLt(q, PZero) THEN PNeg(q) ELSE q
\* |q| < SPLIT1 in place of |q| <= SPLIT1
InCentralStrict(q) == PLt(PAbs(q), SPLIT1)

InCentral(q) == PLe(PAbs(q), SPLIT1)

CentralArg(q) == ESub(Fin(CONST1), EMul(PToF(q), PToF(q)))
CentralValue(q, x) == EDiv(EMul(PToF(q), poly(A, x)), poly(B, x))

TailProb(p, q) == IF PLt(q, PZero) THEN p ELSE PSub(POne, p)
TailT(r) == ESqrt(ENeg(PLn(r)))

InNearTail(x) == ELe(x, Fin(SPLIT2))
NearArg(x) == ESub(x, Fin(CONST2))
NearValue(x) == EDiv(poly(C, x), poly(D, x))
FarArg(x) == ESub(x, Fin(SPLIT2))
FarValue(x) == EDiv(poly(E, x), poly(F, x))

Signed(q, x) == IF PLt(q, PZero) THEN ENeg(x) ELSE x

\* Gaussian::inv_cdf on the standard quantile z
InvAffine(g, z) == EAdd(g.mu, EMul(g.sigma, z))

(***************************************************************************)
(* sample, the standard ziggurat sampler                                   *)
(***************************************************************************)
LayerOf(u) == u[1] % 128
CandidateOf(u) == (u[1] \div 256) + 256 * u[2]
SignOf(u) == IF (u[1] \div 128) % 2 # 0 THEN Fin(Unit) ELSE Fin(-Unit)

\* j as f64 * W[i]
\* an x left in the frame by an earlier attempt is used again
XOfCached(j, i) ==
    IF IsFin(smp.x) THEN smp.x ELSE Fin(MulDiv(j, WAt(i), 1000) \div 10000)

XOf(j, i) == Fin(MulDiv(j, WAt(i), 1000) \div 10000)

\* j <= K[i] in place of j < K[i]
FastPathTakenLe(j, i) == j <= KAt(i)

\* the threshold of layer 0 in place of that of layer i
FastPathTakenLayer0(j, i) == j < KAt(0)

FastPathTaken(j, i) == j < KAt(i)
\* i < 126 in place of i < 127
InTailFrom126(i) == ~(i < 126)

InTail(i) == ~(i < 127)

\* the y left in the frame in place of a new one
SlowYStale(i, v) == smp.y

SlowY(i, v) == EAdd(YAt(i + 1), EMul(ESub(YAt(i), YAt(i + 1)), v))

TailX(v) == ESub(Fin(R), EDiv(ELn(ESub(Fin(Unit), v)), Fin(R)))
TailY(x, v) ==
    EMul(EExp(EMul(Fin(-R), ESub(x, EMul(Fin(Unit \div 2), Fin(R))))), v)

Accepted(x, y) == ELt(y, EExp(EMul(EMul(Fin(-(Unit \div 2)), x), x)))

\* Gaussian::sample on the standard sample z
SampleAffine(g, z) == EAdd(EMul(g.sigma, z), g.mu)

\* one read of the source: kind "word" is read::<u64>(), kind "real" is
\* read::<f64>()
\* a uniform real is served by reading another word
ReadWordsOnly(s, kind) == [s EXCEPT !.words = @ + 1]

Read(s, kind) ==
    IF kind = "word" THEN [s EXCEPT !.words = @ + 1]
    ELSE [s EXCEPT !.reals = @ + 1]

(***************************************************************************)
(* The state machine: a caller that makes one call at a time               *)
(***************************************************************************)
InvClear == [via |-> "none", p |-> PZero, q |-> PZero, x |-> NaN]
SmpClear ==
    [via |-> "none", u |-> <<0, 0, 0, 0>>, i |-> 0, j |-> 0, s |-> Fin(0),
     x |-> NaN, y |-> NaN]
SrcClear == [words |-> 0, reals |-> 0]
HistClear ==
    [via |-> "none", mu |-> NaN, sigma |-> NaN, p |-> PZero, r |-> PZero, region |-> "none",
     arg |-> NaN, nPair |-> 0, nLn |-> 0, nSqrt |-> 0, z |-> NaN,
     tape |-> <<>>, trunc |-> FALSE, exit |-> "none"]
Pending(op) == [op |-> op, status |-> "pending", value |-> NaN]
Returned(op, value) == [op |-> op, status |-> "ok", value |-> value]
Failed(op, condition) == [op |-> op, status |-> condition, value |-> NaN]

Init ==
    /\ d = NoGaussian
    /\ pc = "idle"
    /\ ret = [op |-> "none", status |-> "none", value |-> NaN]
    /\ inv = InvClear
    /\ smp = SmpClear
    /\ src = SrcClear
    /\ hist = HistClear

\* Gaussian::new(m, s)
New(m, s) ==
    /\ pc = "idle"
    /\ hist' = [HistClear EXCEPT !.mu = m, !.sigma = s]
    /\ IF ShouldFails(NewRequirement(s))
       THEN /\ ret' = Failed("new", "InvalidParameter")
            /\ d' = d
       ELSE /\ ret' = Returned("new", NaN)
            /\ d' = Gaussian(m, s)
    /\ UNCHANGED <<pc, inv, smp, src>>

\* a method of the Gaussian that only reads it
Query(op, value) ==
    /\ pc = "idle"
    /\ d.some
    /\ ret' = Returned(op, value)
    /\ hist' = HistClear
    /\ UNCHANGED <<d, pc, inv, smp, src>>

Mu == Query("mu", mu(d))
Sigma == Query("sigma", sigma(d))
Mean == Query("mean", mean(d))
Var == Query("var", var(d))
Sd == Query("sd", sd(d))
Kurtosis == Query("kurtosis", kurtosis(d))
Median == Query("median", median(d))
Modes == Query("modes", modes(d))
Skewness == Query("skewness", skewness(d))

\* a call of inv_cdf(p): directly (via "std") or as Gaussian::inv_cdf (via
\* "gauss")
InvCdfCall(via, p) ==
    /\ pc = "idle"
    /\ via = "gauss" => d.some
    /\ inv' = [InvClear EXCEPT !.via = via, !.p = p]
    /\ ret' = Pending("inv_cdf")
    /\ hist' = [HistClear EXCEPT !.via = via, !.p = p]
    /\ pc' = "inv_should"
    /\ UNCHANGED <<d, smp, src>>

\* inv_cdf returns z to its caller
InvReturn(z) ==
    /\ ret' = Returned("inv_cdf", IF inv.via = "gauss" THEN InvAffine(d, z) ELSE z)
    /\ pc' = "idle"
    /\ inv' = InvClear

\* should!(0.0 <= p && p <= 1.0)
InvShould ==
    /\ pc = "inv_should"
    /\ IF ShouldFails(InvCdfRequirement(inv.p))
       THEN /\ ret' = Failed("inv_cdf", "InvalidArgument")
            /\ pc' = "idle"
            /\ inv' = InvClear
       ELSE /\ pc' = "inv_bounds"
            /\ UNCHANGED <<ret, inv>>
    /\ UNCHANGED <<d, smp, src, hist>>

\* the two boundary checks, then q = p - 0.5
InvBounds ==
    /\ pc = "inv_bounds"
    /\ IF AtLowerBound(inv.p)
       THEN /\ InvReturn(NegInf)
            /\ hist' = [hist EXCEPT !.z = NegInf]
       ELSE IF AtUpperBound(inv.p)
       THEN /\ InvReturn(PosInf)
            /\ hist' = [hist EXCEPT !.z = PosInf]
       ELSE /\ inv' = [inv EXCEPT !.q = PSub(inv.p, PHalf)]
            /\ pc' = "inv_central"
            /\ UNCHANGED <<ret, hist>>
    /\ UNCHANGED <<d, smp, src>>

\* the central region: one rational pair in 0.180625 - q * q, times q
InvCentral ==
    /\ pc = "inv_central"
    /\ IF InCentral(inv.q)
       THEN LET x == CentralArg(inv.q)
                z == CentralValue(inv.q, x)
            IN  /\ InvReturn(z)
                /\ hist' = [hist EXCEPT !.region = "central", !.arg = x,
                                        !.nPair = @ + 1, !.z = z]
       ELSE /\ pc' = "inv_tail"
            /\ UNCHANGED <<ret, inv, hist>>
    /\ UNCHANGED <<d, smp, src>>

\* x = the tail probability; x = (-x.ln()).sqrt()
InvTail ==
    /\ pc = "inv_tail"
    /\ LET r == TailProb(inv.p, inv.q)
       IN  /\ inv' = [inv EXCEPT !.x = TailT(r)]
           /\ hist' = [hist EXCEPT !.r = r, !.nLn = @ + 1, !.nSqrt = @ + 1]
    /\ pc' = "inv_split"
    /\ UNCHANGED <<d, ret, smp, src>>

\* the near or the far tail pair, then the sign of q
InvSplit ==
    /\ pc = "inv_split"
    /\ LET near == InNearTail(inv.x)
           x == IF near THEN NearArg(inv.x) ELSE FarArg(inv.x)
           z == Signed(inv.q, IF near THEN NearValue(x) ELSE FarValue(x))
       IN  /\ InvReturn(z)
           /\ hist' = [hist EXCEPT !.region = IF near THEN "near" ELSE "far",
                                   !.arg = x, !.nPair = @ + 1, !.z = z]
    /\ UNCHANGED <<d, smp, src>>

\* a call of sample(source): directly (via "std") or as Gaussian::sample
SampleCall(via) ==
    /\ pc = "idle"
    /\ via = "gauss" => d.some
    /\ smp' = [SmpClear EXCEPT !.via = via]
    /\ src' = SrcClear
    /\ ret' = Pending("sample")
    /\ hist' = [HistClear EXCEPT !.via = via]
    /\ pc' = "s_loop"
    /\ UNCHANGED <<d, inv>>

\* a read of entry ix (counted from 0, as the code does) of table tab
TableRead(tab, ix) == [tab |-> tab, ix |-> ix]

\* the table entries the current attempt has read
Looked(reads) ==
    [hist EXCEPT !.tape[Len(hist.tape)].t = @ \cup reads]

\* sample returns z to its caller
SampleReturn(z, exit, reads) ==
    /\ ret' = Returned("sample", IF smp.via = "gauss" THEN SampleAffine(d, z) ELSE z)
    /\ hist' = [Looked(reads) EXCEPT !.z = z, !.exit = exit]
    /\ pc' = "idle"
    /\ smp' = SmpClear

\* the history of a call keeps its last MaxAttempts attempts: a further attempt
\* restarts it, and the counts of reads with it
HistoryFull == Len(hist.tape) >= MaxAttempts

\* top of the loop: u = source.read::<u64>(), then i, j and s from u
ReadWord ==
    /\ pc = "s_loop"
    /\ \E u \in Words :
          /\ smp' = [smp EXCEPT !.u = u, !.i = LayerOf(u), !.j = CandidateOf(u),
                                !.s = SignOf(u)]
          /\ hist' = [hist EXCEPT
                        !.tape = (IF HistoryFull THEN <<>> ELSE @)
                                   \o <<[u |-> u, v |-> <<>>, t |-> {}]>>,
                        !.trunc = @ \/ HistoryFull]
    /\ src' = Read(IF HistoryFull THEN SrcClear ELSE src, "word")
    /\ pc' = "s_fast"
    /\ UNCHANGED <<d, ret, inv>>

\* if j < K[i] { return s * (j as f64 * W[i]) }
FastPath ==
    /\ pc = "s_fast"
    /\ IF FastPathTaken(smp.j, smp.i)
       THEN /\ SampleReturn(EMul(smp.s, XOf(smp.j, smp.i)), "fast",
                            {TableRead("K", smp.i), TableRead("W", smp.i)})
            /\ UNCHANGED <<src>>
       ELSE /\ pc' = "s_slow"
            /\ hist' = Looked({TableRead("K", smp.i)})
            /\ UNCHANGED <<ret, smp, src>>
    /\ UNCHANGED <<d, inv>>

\* the values the source delivered in the current attempt, and the table
\* entries read with them
Drew(vs, reads) ==
    [Looked(reads) EXCEPT !.tape[Len(hist.tape)].v = @ \o vs]

\* a layer below the tail: x from j, y from one uniform real
SlowLayer ==
    /\ pc = "s_slow"
    /\ ~InTail(smp.i)
    /\ \E v \in Reals :
          /\ smp' = [smp EXCEPT !.x = XOf(smp.j, smp.i), !.y = SlowY(smp.i, v)]
          /\ hist' = Drew(<<v>>, {TableRead("W", smp.i), TableRead("Y", smp.i + 1),
                                 TableRead("Y", smp.i)})
    /\ src' = Read(src, "real")
    /\ pc' = "s_accept"
    /\ UNCHANGED <<d, ret, inv>>

\* the tail layer: x from one uniform real, y from another
SlowTail ==
    /\ pc = "s_slow"
    /\ InTail(smp.i)
    /\ \E v1 \in Reals, v2 \in Reals :
          /\ smp' = [smp EXCEPT !.x = TailX(v1), !.y = TailY(TailX(v1), v2)]
          /\ hist' = Drew(<<v1, v2>>, {})
    /\ src' = Read(Read(src, "real"), "real")
    /\ pc' = "s_accept"
    /\ UNCHANGED <<d, ret, inv>>

\* if y < (-0.5 * x * x).exp() { return s * x }, else around the loop again
Accept ==
    /\ pc = "s_accept"
    /\ IF Accepted(smp.x, smp.y)
       THEN SampleReturn(EMul(smp.s, smp.x), "accept", {})
       ELSE /\ pc' = "s_loop"
            /\ UNCHANGED <<ret, smp, hist>>
    /\ UNCHANGED <<d, inv, src>>

Next ==
    \/ \E m \in Mus, s \in Sigmas : New(m, s)
    \/ Mu
    \/ Sigma
    \/ Mean
    \/ Var
    \/ Sd
    \/ Kurtosis
    \/ Median
    \/ Modes
    \/ Skewness
    \/ \E via \in {"std", "gauss"}, p \in Probs : InvCdfCall(via, p)
    \/ InvShould
    \/ InvBounds
    \/ InvCentral
    \/ InvTail
    \/ InvSplit
    \/ \E via \in {"std", "gauss"} : SampleCall(via)
    \/ ReadWord
    \/ FastPath
    \/ SlowLayer
    \/ SlowTail
    \/ Accept

Spec == Init /\ [][Next]_vars

(***************************************************************************)
(* The fairness the sampler's termination rests on.  A call that has begun *)
(* keeps running: this is weak fairness of SampleStep, written with the    *)
(* state predicate InSample for ENABLED <<SampleStep>>_vars, which it      *)
(* equals since every place inside sample has a step and every step moves  *)
(* pc.  And the source, asked again and again, does not withhold for ever  *)
(* a word whose candidate lies below the threshold of its layer.           *)
(***************************************************************************)
InSample == pc \in {"s_loop", "s_fast", "s_slow", "s_accept"}
SampleStep == ReadWord \/ FastPath \/ SlowLayer \/ SlowTail \/ Accept
SampleRuns == []<>(~InSample) \/ []<><<SampleStep>>_vars
DeliversFastWord == ReadWord /\ smp'.j < K[smp'.i + 1]

FairSpec == Spec /\ SampleRuns /\ SF_vars(DeliversFastWord)

(***************************************************************************)
(* Properties                                                              *)
(***************************************************************************)
InInvCdf == pc \in {"inv_should", "inv_bounds", "inv_central", "inv_tail", "inv_split"}
Came(op) == pc = "idle" /\ ret.op = op

\* C1: Gaussian::new(mu, sigma) fails with InvalidParameter whenever
\* sigma <= 0, for every mu, and leaves the caller with no Gaussian whose sigma
\* is <= 0; for sigma > 0 it succeeds and gives the Gaussian of exactly the
\* supplied mu and sigma, which mu() and sigma() return.
NewChecksSigma ==
    /\ d.some => ELt(Fin(0), d.sigma)
    /\ Came("new") /\ ELe(hist.sigma, Fin(0)) => ret.status = "InvalidParameter"
    /\ Came("new") /\ ELt(Fin(0), hist.sigma) =>
          /\ ret.status = "ok"
          /\ d.some /\ d.mu = hist.mu /\ d.sigma = hist.sigma
    /\ Came("mu") => ret.status = "ok" /\ ret.value = d.mu
    /\ Came("sigma") => ret.status = "ok" /\ ret.value = d.sigma

\* a new with sigma = 0 has failed while the caller holds an earlier Gaussian
NewRejectedZeroSigma ==
    /\ Came("new") /\ ret.status = "InvalidParameter"
    /\ hist.sigma = Fin(0) /\ d.some

\* C2: inv_cdf(p) with p < 0 or p > 1 fails with InvalidArgument: it gives no
\* value, and the boundary checks p <= 0 and 1 <= p are never reached with
\* such a p (so it is never clamped to an infinity).
InvCdfRejectsOutside ==
    LET outside == PLt(hist.p, PZero) \/ PLt(POne, hist.p)
    IN  /\ Came("inv_cdf") /\ outside =>
              /\ ret.status = "InvalidArgument"
              /\ ret.value = NaN /\ hist.z = NaN
        /\ InInvCdf /\ outside => pc = "inv_should"

\* inv_cdf has refused a p just above 1
InvCdfRefusedAboveOne ==
    /\ Came("inv_cdf") /\ ret.status = "InvalidArgument"
    /\ hist.p = Prob(1, Limb, 1)

\* C3: for every valid (mu, sigma), inv_cdf(0) is negative infinity and
\* inv_cdf(1) is positive infinity, given by the boundary checks: no rational
\* pair, no ln and no sqrt has been evaluated and no region has been entered.
InvCdfEnds ==
    LET end == IF hist.p = PZero THEN NegInf ELSE PosInf
    IN  hist.p \in {PZero, POne} =>
           /\ Came("inv_cdf") =>
                 /\ ret.status = "ok" /\ ret.value = end /\ hist.z = end
                 /\ hist.region = "none"
                 /\ hist.nPair = 0 /\ hist.nLn = 0 /\ hist.nSqrt = 0
           /\ InInvCdf => pc \in {"inv_should", "inv_bounds"}

\* Gaussian::inv_cdf(0) has returned for mu = 2, sigma = 0.25
InvCdfZeroReturned ==
    /\ Came("inv_cdf") /\ ret.status = "ok"
    /\ hist.via = "gauss" /\ hist.p = PZero
    /\ d.mu = Fin(2 * Unit) /\ d.sigma = Fin(Unit \div 4)

\* the attempt in progress, or the one that returned: the values the source
\* delivered in it
Last == hist.tape[Len(hist.tape)]

\* what an attempt must do with the values a == [u, v] it drew, written out
\* from u's bits and the tables
AttLayer(a) == a.u[1] % 128
AttCandidate(a) == (a.u[1] \div 256) + 256 * a.u[2]
AttSign(a) == IF (a.u[1] \div 128) % 2 = 1 THEN Fin(Unit) ELSE Fin(-Unit)
AttBox(a) == Fin(MulDiv(AttCandidate(a), W[AttLayer(a) + 1], 1000) \div 10000)
AttFast(a) == AttCandidate(a) < K[AttLayer(a) + 1]
AttReals(a) == IF AttFast(a) THEN 0 ELSE IF AttLayer(a) < 127 THEN 1 ELSE 2
AttX(a) ==
    IF AttLayer(a) < 127 THEN AttBox(a)
    ELSE ESub(Fin(R), EDiv(ELn(ESub(Fin(Unit), a.v[1])), Fin(R)))
AttY(a) ==
    IF AttLayer(a) < 127
    THEN EAdd(Fin(Y[AttLayer(a) + 2]),
              EMul(Fin(Y[AttLayer(a) + 1] - Y[AttLayer(a) + 2]), a.v[1]))
    ELSE EMul(EExp(EMul(Fin(-R), ESub(AttX(a), Fin(R \div 2)))), a.v[2])
AttAccepts(a) ==
    ELt(AttY(a), EExp(EMul(EMul(Fin(-(Unit \div 2)), AttX(a)), AttX(a))))
AttReturns(a) == AttFast(a) \/ AttAccepts(a)
AttValue(a) == EMul(AttSign(a), IF AttFast(a) THEN AttBox(a) ELSE AttX(a))

RECURSIVE TotalReals(_)
TotalReals(tape) ==
    IF tape = <<>> THEN 0 ELSE Len(Head(tape).v) + TotalReals(Tail(tape))

\* the attempts of the history that are over: all of them once the call has
\* returned or gone back to the top of the loop
Finished ==
    IF pc \in {"s_fast", "s_slow", "s_accept"}
    THEN SubSeq(hist.tape, 1, Len(hist.tape) - 1)
    ELSE hist.tape

\* the statement examined for C4 as it stands: every slow-path attempt, the tail
\* layer's included, reads exactly one uniform real, so that n attempts have read
\* n words and at most n reals
OneRealPerSlowAttempt ==
    (InSample \/ Came("sample")) =>
       /\ src.words = Len(hist.tape)
       /\ src.reals <= src.words
       /\ \A k \in 1 .. Len(Finished) :
             Len(Finished[k].v) = IF AttFast(Finished[k]) THEN 0 ELSE 1

\* C4 (amended): every attempt reads exactly one 64-bit word; a fast-path
\* attempt reads nothing else, a slow-path attempt below the tail layer reads
\* exactly one uniform real and a slow-path attempt of the tail layer i = 127
\* reads exactly two.  Hence n attempts have read n words and at most 2n reals.
ReadsPerAttempt ==
    (InSample \/ Came("sample")) =>
       /\ src.words = Len(hist.tape)
       /\ src.reals = TotalReals(hist.tape)
       /\ src.reals <= 2 * src.words
       /\ \A k \in 1 .. Len(Finished) : Len(Finished[k].v) = AttReals(Finished[k])
       /\ pc \in {"s_fast", "s_slow"} => Last.v = <<>>
       /\ pc = "s_accept" => Len(Last.v) = AttReals(Last) /\ ~AttFast(Last)
       /\ \A k \in 1 .. Len(hist.tape) : \A n \in 1 .. Len(hist.tape[k].v) :
             ELe(Fin(0), hist.tape[k].v[n]) /\ ELt(hist.tape[k].v[n], Fin(Unit))

\* a second attempt, of the tail layer, has drawn its two reals after a first
\* attempt below the tail that drew one
TailAttemptDrewTwo ==
    /\ pc = "s_accept" /\ Len(hist.tape) = 2
    /\ smp.i = 127 /\ Len(Last.v) = 2
    /\ src.words = 2 /\ src.reals = 3

\* C5: a call of sample leaves the loop only by the fast-path return or by the
\* slow-path acceptance return, each time with one value and never with a
\* failure; a rejected attempt goes back to the top of the loop whatever the
\* number of attempts made; and, the source being fair, every call returns.
SampleOnlyReturns ==
    /\ [][InSample =>
            \/ /\ pc' = "idle" /\ ret'.op = "sample" /\ ret'.status = "ok"
               /\ IsFin(hist'.z)
               /\ \/ pc = "s_fast" /\ AttFast(Last) /\ hist'.exit = "fast"
                  \/ pc = "s_accept" /\ AttAccepts(Last) /\ hist'.exit = "accept"
            \/ /\ InSample' /\ ret' = ret /\ ret.status = "pending"
               /\ pc = "s_accept" => pc' = "s_loop" /\ ~AttAccepts(Last)
               /\ pc = "s_fast" => pc' = "s_slow" /\ ~AttFast(Last)]_vars
    /\ InSample ~> Came("sample")

\* a call has returned after more attempts than the history keeps
ReturnedAfterManyAttempts ==
    Came("sample") /\ ret.status = "ok" /\ hist.trunc

RECURSIVE FirstExit(_, _)
\* the first attempt, from the k-th on, whose draws make it return; 0 if none
FirstExit(tape, k) ==
    IF k > Len(tape) THEN 0
    ELSE IF AttReturns(tape[k]) THEN k
    ELSE FirstExit(tape, k + 1)

\* C6: the outcome of a call of sample is a function of mu, sigma and the
\* sequence of words and reals the source delivered during the call, whatever
\* went before: the call ends at the first attempt whose own draws make it
\* return, has then consumed exactly the delivered values, and returns
\* sigma * z + mu for the z of that attempt.  Two calls fed the same sequence
\* therefore agree in attempts, values consumed and result.
SampleIsFunctionOfDraws ==
    ~hist.trunc =>
       /\ InSample => FirstExit(Finished, 1) = 0
       /\ Came("sample") =>
             LET n == Len(hist.tape)
                 z == AttValue(hist.tape[n])
             IN  /\ n >= 1 /\ FirstExit(hist.tape, 1) = n
                 /\ src.words = n /\ src.reals = TotalReals(hist.tape)
                 /\ \A k \in 1 .. n : Len(hist.tape[k].v) = AttReals(hist.tape[k])
                 /\ hist.z = z
                 /\ ret.value = IF hist.via = "gauss"
                                THEN EAdd(EMul(d.sigma, z), d.mu)
                                ELSE z

\* Gaussian::sample has returned from its second attempt, the first one, a
\* slow-path attempt, having been rejected
SecondAttemptReturned ==
    /\ Came("sample") /\ hist.via = "gauss" /\ ~hist.trunc
    /\ Len(hist.tape) = 2 /\ Len(hist.tape[1].v) = 1
    /\ hist.exit = "fast"

\* C7: for every valid (mu, sigma): mean() = mu, var() = sigma * sigma,
\* sd() = sigma, median() = mu, modes() = <<mu>>, skewness() = 0 and
\* kurtosis() = 0, and none of these calls changes mu or sigma.
Moments == {"mean", "var", "sd", "median", "modes", "skewness", "kurtosis"}
MomentIdentities ==
    /\ [](/\ Came("mean") => ret.value = d.mu
          /\ Came("var") => ret.value = EMul(d.sigma, d.sigma)
          /\ Came("sd") => ret.value = d.sigma
          /\ Came("median") => ret.value = d.mu
          /\ Came("modes") => ret.value = <<d.mu>>
          /\ Came("skewness") => ret.value = Fin(0)
          /\ Came("kurtosis") => ret.value = Fin(0)
          /\ ret.op \in Moments => ret.status = "ok" /\ d.some /\ ELt(Fin(0), d.sigma))
    /\ [][ret'.op \in Moments => d' = d]_vars

\* var() has returned 4 for sigma = 2
VarOfTwoIsFour ==
    Came("var") /\ d.sigma = Fin(2 * Unit) /\ ret.value = Fin(4 * Unit)

\* C8: for 0 < p < 1 the standard inv_cdf evaluates exactly one rational pair.
\* With q = p - 0.5 it is the central pair A/B in 0.180625 - q * q, its value
\* multiplied by q, iff |q| <= 0.425.  Otherwise r = min(p, 1 - p) lies in
\* (0, 0.5), t = sqrt(-ln r), and the pair is the near-tail pair C/D in
\* t - 1.6 iff t <= 5.0 and the far-tail pair E/F in t - 5.0 iff t > 5.0; in
\* both tails the magnitude is negated exactly when q < 0.
InvCdfRegions ==
    LET p == hist.p
        q == PSub(p, PHalf)
        central == PLe(IF PLt(q, PZero) THEN PNeg(q) ELSE q, Prob(1, 425000, 0))
        r == IF PLt(p, PSub(POne, p)) THEN p ELSE PSub(POne, p)
        t == ESqrt(ENeg(PLn(r)))
        near == ELe(t, Fin(5 * Unit))
        u == IF central THEN ESub(Fin(CONST1), EMul(PToF(q), PToF(q)))
             ELSE IF near THEN ESub(t, Fin(16 * (Unit \div 10)))
             ELSE ESub(t, Fin(5 * Unit))
        num == IF central THEN A ELSE IF near THEN C ELSE E
        den == IF central THEN B ELSE IF near THEN D ELSE F
        value == EDiv(Horner(num, u, 1), Horner(den, u, 1))
    IN  PLt(PZero, p) /\ PLt(p, POne) =>
           /\ pc = "inv_tail" => ~central
           /\ pc = "inv_split" =>
                 /\ ~central /\ hist.r = r /\ inv.x = t
                 /\ hist.nPair = 0 /\ hist.nLn = 1 /\ hist.nSqrt = 1
           /\ Came("inv_cdf") =>
                 /\ ret.status = "ok"
                 /\ hist.nPair = 1
                 /\ hist.region = IF central THEN "central"
                                  ELSE IF near THEN "near" ELSE "far"
                 /\ hist.arg = u
                 /\ central =>
                       /\ hist.nLn = 0 /\ hist.nSqrt = 0
                       /\ hist.z = EDiv(EMul(PToF(q), Horner(A, u, 1)),
                                        Horner(B, u, 1))
                 /\ ~central =>
                       /\ hist.nLn = 1 /\ hist.nSqrt = 1
                       /\ hist.r = r
                       /\ PLt(PZero, r) /\ PLt(r, PHalf)
                       /\ ELe(Fin(0), value)
                       /\ hist.z = IF PLt(q, PZero) THEN ENeg(value) ELSE value

\* inv_cdf(1 - 1e-12) has returned a positive quantile from the far-tail pair
FarUpperTailReturned ==
    /\ Came("inv_cdf") /\ ret.status = "ok"
    /\ hist.p = Prob(1, 999999, 999999)
    /\ hist.region = "far" /\ ELt(Fin(0), hist.z)

\* bit n of the word u, and the number its bits lo..hi spell
BitOf(u, n) == (u[(n \div 16) + 1] \div Pow2(n % 16)) % 2
RECURSIVE BitsOf(_, _, _)
BitsOf(u, lo, hi) ==
    IF hi < lo THEN 0 ELSE BitOf(u, lo) + 2 * BitsOf(u, lo + 1, hi)

\* C9: in each attempt, for the word u read: i = u & 0x7F, in 0..127;
\* j = (u >> 8) & 0xFFFFFF, in 0..2^24-1; the sign is +1 iff bit 7 of u is
\* set, else -1.  The attempt returns at once with sign * j * W[i] if and
\* only if j < K[i], having read nothing more; otherwise it goes to the slow
\* path with the same i, j and sign.
AttemptDecodesWord ==
    /\ [](pc \in {"s_fast", "s_slow", "s_accept"} =>
             /\ smp.u = Last.u
             /\ smp.i = BitsOf(smp.u, 0, 6) /\ smp.i \in 0 .. 127
             /\ smp.j = BitsOf(smp.u, 8, 31) /\ smp.j \in 0 .. 16777215
             /\ smp.s = IF BitOf(smp.u, 7) = 1 THEN Fin(Unit) ELSE Fin(-Unit))
    /\ [][pc = "s_fast" =>
            LET i == BitsOf(smp.u, 0, 6)
                j == BitsOf(smp.u, 8, 31)
                s == IF BitOf(smp.u, 7) = 1 THEN 1 ELSE -1
                z == Fin(s * (MulDiv(j, W[i + 1], 1000) \div 10000))
            IN  IF j < K[i + 1]
                THEN /\ pc' = "idle" /\ ret'.op = "sample" /\ ret'.status = "ok"
                     /\ hist'.exit = "fast" /\ hist'.z = z
                     /\ ret'.value = IF hist.via = "gauss"
                                     THEN EAdd(EMul(d.sigma, z), d.mu) ELSE z
                     /\ src' = src
                ELSE /\ pc' = "s_slow"
                     /\ smp'.i = i /\ smp'.j = j /\ smp'.s = Fin(s * Unit)
                     /\ ret' = ret /\ src' = src]_vars

\* a candidate equal to the threshold of layer 126 has gone to the slow path
ThresholdCandidateIsSlow ==
    pc = "s_slow" /\ smp.i = 126 /\ smp.j = K[127] /\ smp.s = Fin(Unit)

\* C10: a slow-path attempt either accepts, returning sign * x for the x and
\* y made from its own draws (y < exp(-x * x / 2)), or is discarded and the
\* loop starts again by reading a fresh 64-bit word from which i, j and sign
\* are taken anew; x and y of an attempt come from that attempt's word and
\* reals alone, and the value returned is that of the returning attempt.
SlowAttemptIsAtomic ==
    /\ [](/\ pc = "s_accept" =>
                /\ ~AttFast(Last)
                /\ smp.x = AttX(Last) /\ smp.y = AttY(Last)
          /\ Came("sample") /\ hist.exit = "accept" =>
                /\ ~AttFast(Last) /\ AttAccepts(Last)
                /\ hist.z = EMul(AttSign(Last), AttX(Last)))
    /\ [][/\ pc = "s_accept" =>
               IF ELt(smp.y, EExp(ENeg(EDiv(EMul(smp.x, smp.x), Fin(2 * Unit)))))
               THEN /\ pc' = "idle" /\ ret'.status = "ok"
                    /\ hist'.exit = "accept" /\ hist'.z = EMul(smp.s, smp.x)
               ELSE /\ pc' = "s_loop" /\ ret' = ret /\ src' = src
          /\ pc = "s_loop" =>
               /\ pc' = "s_fast"
               /\ src'.words = Len(hist'.tape) /\ src'.reals = TotalReals(hist'.tape)
               /\ Last'.v = <<>>
               /\ smp'.u = Last'.u
               /\ smp'.i = AttLayer(Last') /\ smp'.j = AttCandidate(Last')
               /\ smp'.s = AttSign(Last')]_vars

\* a slow-path attempt has been accepted after a slow-path attempt that was
\* rejected
AcceptedAfterRejection ==
    /\ Came("sample") /\ hist.exit = "accept" /\ ~hist.trunc
    /\ Len(hist.tape) = 2 /\ ~AttFast(hist.tape[1])

\* C11: for every word and every path through an attempt, each table read is
\* inside the 128 entries: K[i] and W[i] are read with 0 <= i <= 127, and
\* Y[i + 1] (with Y[i]) is read only on the slow path of a layer i < 127, so
\* that i + 1 <= 127; the tail layer i = 127 reads no entry of Y.
TableReadsInBounds ==
    LET size(tab) == Len(CASE tab = "K" -> K [] tab = "Y" -> Y [] OTHER -> W)
        layer(a) == BitsOf(a.u, 0, 6)
        whole(a) ==
            {TableRead("K", layer(a))}
              \cup (IF AttFast(a) \/ layer(a) < 127
                    THEN {TableRead("W", layer(a))} ELSE {})
              \cup (IF ~AttFast(a) /\ layer(a) < 127
                    THEN {TableRead("Y", layer(a) + 1), TableRead("Y", layer(a))}
                    ELSE {})
    IN  /\ Len(K) = 128 /\ Len(Y) = 128 /\ Len(W) = 128
        /\ \A k \in 1 .. Len(hist.tape) :
              LET a == hist.tape[k]
              IN  \A r \in a.t :
                     /\ r.tab \in {"K", "Y", "W"}
                     /\ 0 <= r.ix /\ r.ix < size(r.tab) /\ r.ix <= 127
                     /\ r.tab \in {"K", "W"} => r.ix = layer(a)
                     /\ r.tab = "Y" =>
                           /\ layer(a) < 127 /\ ~AttFast(a)
                           /\ r.ix \in {layer(a), layer(a) + 1}
        /\ \A k \in 1 .. Len(Finished) : Finished[k].t = whole(Finished[k])
        /\ pc = "s_fast" => Last.t = {}
        /\ pc = "s_slow" => Last.t = {TableRead("K", layer(Last))}
        /\ pc = "s_accept" => Last.t = whole(Last)

\* a slow-path attempt of the tail layer has drawn its reals having read K[127]
\* alone, after a slow-path attempt of layer 126 that read Y[127] and Y[126]
TailReadNoYAfterLayer126 ==
    /\ pc = "s_accept" /\ Len(hist.tape) = 2
    /\ AttLayer(hist.tape[1]) = 126
    /\ TableRead("Y", 127) \in hist.tape[1].t
    /\ AttLayer(Last) = 127 /\ Last.t = {TableRead("K", 127)}
====
